---- MODULE Spec2Model ----
(***************************************************************************)
(* A model of exporter.py: the command line of main, the batch loop over   *)
(* the repository mapping, process_repo (init_git_repo, copy_hg_repo,      *)
(* fix_branches, convert, cleanup) and the head renaming of fix_branches.  *)
(*                                                                         *)
(* Strings are sequences of atoms, so that concatenation is \o and         *)
(* startswith is a prefix test.  An optional value is <<>> (None) or <<v>>.*)
(* An external command (hg, git, the translation engine) or a file system  *)
(* call either does what it is asked or fails; check_call raises then.     *)
(***************************************************************************)
EXTENDS Integers, Sequences, FiniteSets, TLC

VARIABLES
    platform,        \* os.name
    argv,            \* sys.argv
    argv_copy,       \* sys.argv[:], the list the loop of main iterates
    i,               \* index of that loop (1-based)
    BASH,            \* the local BASH of main, <<>> while unassigned
    mapping,         \* repo_mapping.items(), in iteration order
    idx,             \* position of the batch loop in mapping
    fs,              \* the destination paths on disk
    repos,           \* the source repositories and their disposable copies on disk
    hg_repo,         \* the argument of fix_branches
    all_heads,       \* fix_branches: all_heads
    heads_by_branch, \* fix_branches: heads_by_branch
    todo,            \* branches heads_by_branch.items() still has to yield
    branch,          \* fix_branches: branch of the outer loop
    k,               \* index in heads of the head the inner loop is at
    counter,         \* next value of itertools.count(1)
    new_branch_name, \* fix_branches: new_branch_name
    wd,              \* working directory of hg_repo: parent commit and branch
    cmds,            \* external commands run for the current pair
    pc,              \* position in the program
    exit,            \* how the process ended
    fs0,             \* history: fs when the run began
    repos0,          \* history: repos when the run began
    atCall           \* history: fs when process_repo was called

vars == <<platform, argv, argv_copy, i, BASH, mapping, idx, fs, repos, hg_repo,
          all_heads, heads_by_branch, todo, branch, k, counter, new_branch_name,
          wd, cmds, pc, exit, fs0, repos0, atCall>>

mainVars == <<platform, argv, argv_copy, i, BASH>>
batchVars == <<mapping, idx, fs, fs0, repos0, atCall>>
fixVars == <<all_heads, heads_by_branch, todo, branch, k, counter, new_branch_name, wd>>

None == <<>>

\* ------------------------------------------------------------------ bounds
MaxHeads == 3
MaxEntries == 2
MaxArgs == 3

\* ------------------------------------------------------------------ strings
DigitChar == <<"0", "1", "2", "3", "4", "5", "6", "7", "8", "9">>

RECURSIVE Dec(_)
Dec(n) == IF n < 10 THEN <<DigitChar[n + 1]>>
          ELSE Dec(n \div 10) \o <<DigitChar[(n % 10) + 1]>>

StartsWith(s, p) == Len(s) >= Len(p) /\ SubSeq(s, 1, Len(p)) = p

\* arg.split('=', 1): the parts around the first '=', one part without '='
EqPositions(s) == {j \in 1..Len(s) : s[j] = "="}
FirstEq(s) == CHOOSE j \in EqPositions(s) : \A m \in EqPositions(s) : j <= m
Split1(s) == IF EqPositions(s) = {} THEN <<s>>
             ELSE <<SubSeq(s, 1, FirstEq(s) - 1), SubSeq(s, FirstEq(s) + 1, Len(s))>>

\* del sys.argv[i] (0-based i is position i + 1 here)
DelAt(s, j) == SubSeq(s, 1, j - 1) \o SubSeq(s, j + 1, Len(s))

BashFlag == <<"-", "-", "b", "a", "s", "h">>
DefaultBash == <<"/bin/bash">>

\* ------------------------------------------------------------------ get_heads
\* One entry of `hg heads --closed --topo --template json`.
HgHead(node, br, date, bookmarks) ==
    [node |-> node, branch |-> br, date |-> date, bookmarks |-> bookmarks]

HeadRecord(head) ==
    [hash |-> head.node,
     branch |-> head.branch,
     timestamp |-> head.date[1] + head.date[2],
     bookmark |-> IF head.bookmarks # <<>> THEN <<head.bookmarks[1]>> ELSE None]

get_heads(heads) == [j \in 1..Len(heads) |-> HeadRecord(heads[j])]

\* ------------------------------------------------------------------ fix_branches, pure parts
GroupBy(heads, b) == SelectSeq(heads, LAMBDA h : h.branch = b)

Branches(heads) == {heads[j].branch : j \in 1..Len(heads)}

\* list.sort(reverse=True, key=timestamp) is stable: equal keys keep their order.
InsertTiesFirst(sorted, h) ==
    LET n == Cardinality({j \in 1..Len(sorted) : sorted[j].timestamp > h.timestamp})
    IN SubSeq(sorted, 1, n) \o <<h>> \o SubSeq(sorted, n + 1, Len(sorted))

Insert(sorted, h) ==
    LET n == Cardinality({j \in 1..Len(sorted) : sorted[j].timestamp >= h.timestamp})
    IN SubSeq(sorted, 1, n) \o <<h>> \o SubSeq(sorted, n + 1, Len(sorted))

RECURSIVE SortNewestFirst(_)
SortNewestFirst(s) ==
    IF s = <<>> THEN <<>>
    ELSE Insert(SortNewestFirst(SubSeq(s, 1, Len(s) - 1)), s[Len(s)])

AnonymousInfix == <<"-anonymous-">>

CounterStart == 1

NewBranchNameNoBookmark(head, br, c) == br \o AnonymousInfix \o Dec(c)

NewBranchName(head, br, c) ==
    IF head.bookmark # None THEN head.bookmark[1]
    ELSE br \o AnonymousInfix \o Dec(c)

CounterAfterAlways(head, c) == c + 1

CounterAfter(head, c) == IF head.bookmark # None THEN c ELSE c + 1

\* ------------------------------------------------------------------ paths and disk
SrcPath(n) == <<"src", n>>
CopyPath(n) == <<"copy", n>>
Paths == {SrcPath(n) : n \in 1..MaxEntries} \cup {CopyPath(n) : n \in 1..MaxEntries}

Dests == {"d1", "d2"}

NoRepo == [state |-> "absent", heads |-> <<>>]

\* `hg commit --amend` makes a new changeset in place of the working directory's parent.
AmendedNode(heads, node) == node + Len(heads)

Amend(heads, w) ==
    [j \in 1..Len(heads) |->
        IF heads[j].node = w.parent
        THEN [heads[j] EXCEPT !.node = AmendedNode(heads, w.parent), !.branch = w.branch]
        ELSE heads[j]]

NodeBranch(heads, node) ==
    LET js == {j \in 1..Len(heads) : heads[j].node = node}
    IN IF js = {} THEN None ELSE <<heads[CHOOSE j \in js : TRUE].branch>>

\* ------------------------------------------------------------------ fix_branches
Ran(tool, path) == cmds \cup {[tool |-> tool, on |-> path]}

HgPcs == {"fix_branches", "hg_up", "hg_phase", "hg_branch", "hg_log", "hg_amend"}

\* lines 89-96: query the heads, group them by branch, sort each group newest first
FixGetHeads ==
    /\ pc = "fix_branches"
    /\ all_heads' = get_heads(repos[hg_repo].heads)
    /\ heads_by_branch' = [b \in Branches(all_heads') |->
                              SortNewestFirst(GroupBy(all_heads', b))]
    /\ todo' = Branches(all_heads')
    /\ cmds' = Ran("hg heads", hg_repo)
    /\ pc' = "fix_items"
    /\ UNCHANGED <<mainVars, batchVars, repos, hg_repo, branch, k, counter,
                   new_branch_name, wd, exit>>

\* check_call / check_output raises CalledProcessError
HgFails ==
    /\ pc \in HgPcs
    /\ pc' = "fix_raised"
    /\ UNCHANGED <<mainVars, batchVars, fixVars, repos, hg_repo, cmds, exit>>

\* line 99-100: the next item of heads_by_branch.items(), in the dict's order
FixNextBranch ==
    /\ pc = "fix_items"
    /\ \E b \in todo :
          /\ branch' = b
          /\ todo' = todo \ {b}
    /\ counter' = CounterStart
    /\ k' = 2
    /\ pc' = "fix_heads"
    /\ UNCHANGED <<mainVars, batchVars, repos, hg_repo, all_heads, heads_by_branch,
                   new_branch_name, wd, cmds, exit>>

FixReturn ==
    /\ pc = "fix_items"
    /\ todo = {}
    /\ pc' = "fix_returned"
    /\ UNCHANGED <<mainVars, batchVars, fixVars, repos, hg_repo, cmds, exit>>

\* lines 101-105: the next head of heads[1:] and its new branch name
FixNextHead ==
    /\ pc = "fix_heads"
    /\ k <= Len(heads_by_branch[branch])
    /\ LET head == heads_by_branch[branch][k]
       IN /\ new_branch_name' = NewBranchName(head, branch, counter)
          /\ counter' = CounterAfter(head, counter)
    /\ pc' = "hg_up"
    /\ UNCHANGED <<mainVars, batchVars, repos, hg_repo, all_heads, heads_by_branch,
                   todo, branch, k, wd, cmds, exit>>

FixGroupDone ==
    /\ pc = "fix_heads"
    /\ k > Len(heads_by_branch[branch])
    /\ pc' = "fix_items"
    /\ UNCHANGED <<mainVars, batchVars, fixVars, repos, hg_repo, cmds, exit>>

\* line 108: hg up <hash>
HgUp ==
    /\ pc = "hg_up"
    /\ LET head == heads_by_branch[branch][k]
       IN wd' = [parent |-> head.hash,
                 branch |-> NodeBranch(repos[hg_repo].heads, head.hash)]
    /\ cmds' = Ran("hg up", hg_repo)
    /\ pc' = "hg_phase"
    /\ UNCHANGED <<mainVars, batchVars, repos, hg_repo, all_heads, heads_by_branch,
                   todo, branch, k, counter, new_branch_name, exit>>

\* lines 110-112: hg phase --draft --force <hash>
HgPhase ==
    /\ pc = "hg_phase"
    /\ cmds' = Ran("hg phase", hg_repo)
    /\ pc' = "hg_branch"
    /\ UNCHANGED <<mainVars, batchVars, fixVars, repos, hg_repo, exit>>

\* line 113: hg branch <new_branch_name>
HgBranch ==
    /\ pc = "hg_branch"
    /\ wd' = [wd EXCEPT !.branch = <<new_branch_name>>]
    /\ cmds' = Ran("hg branch", hg_repo)
    /\ pc' = "hg_log"
    /\ UNCHANGED <<mainVars, batchVars, repos, hg_repo, all_heads, heads_by_branch,
                   todo, branch, k, counter, new_branch_name, exit>>

\* lines 114-116: hg log -r <hash> --template {desc}
HgLog ==
    /\ pc = "hg_log"
    /\ cmds' = Ran("hg log", hg_repo)
    /\ pc' = "hg_amend"
    /\ UNCHANGED <<mainVars, batchVars, fixVars, repos, hg_repo, exit>>

\* line 117: hg commit --amend -m <msg>, then the next head of the group
HgAmend ==
    /\ pc = "hg_amend"
    /\ repos' = [repos EXCEPT ![hg_repo].heads =
                    Amend(@, [parent |-> wd.parent, branch |-> wd.branch[1]])]
    /\ cmds' = Ran("hg commit --amend", hg_repo)
    /\ k' = k + 1
    /\ pc' = "fix_heads"
    /\ UNCHANGED <<mainVars, batchVars, hg_repo, all_heads, heads_by_branch, todo,
                   branch, counter, new_branch_name, wd, exit>>

NextFix ==
    \/ FixGetHeads \/ HgFails \/ FixNextBranch \/ FixReturn \/ FixNextHead
    \/ FixGroupDone \/ HgUp \/ HgPhase \/ HgBranch \/ HgLog \/ HgAmend

\* ------------------------------------------------------------------ fix_branches on any repository
NameA == <<"a">>
NameX == <<"a", "-anonymous-", "1">>
NameF == <<"f">>
NameG == <<"g">>

FixBranchNames == {NameA, NameX}
Dates == {<<1, 0>>, <<1, 1>>, <<2, 0>>}
BookmarkLists == {<<>>, <<NameX>>, <<NameF, NameG>>}

HeadChoice == [branch : FixBranchNames, date : Dates, bookmarks : BookmarkLists]

\* a bookmark points at one changeset
BookmarksUnique(f) ==
    \A m, n \in DOMAIN f :
        (m # n /\ f[m].bookmarks # <<>>) => f[m].bookmarks # f[n].bookmarks

HeadLists(n) ==
    {[j \in 1..n |-> HgHead(j, f[j].branch, f[j].date, f[j].bookmarks)] :
        f \in {g \in [1..n -> HeadChoice] : BookmarksUnique(g)}}

Repo(heads) == [state |-> "full", heads |-> heads]

FixLocalsInit ==
    /\ all_heads = <<>>
    /\ heads_by_branch = <<>>
    /\ todo = {}
    /\ branch = None
    /\ k = 0
    /\ counter = 0
    /\ new_branch_name = None
    /\ wd = [parent |-> 0, branch |-> None]

InitFix ==
    /\ platform = "posix"
    /\ argv = <<>>
    /\ argv_copy = <<>>
    /\ i = 0
    /\ BASH = DefaultBash
    /\ mapping = <<>>
    /\ idx = 0
    /\ fs = [d \in Dests |-> "absent"]
    /\ \E n \in 0..MaxHeads : \E heads \in HeadLists(n) :
          repos = [p \in Paths |-> IF p = SrcPath(1) THEN Repo(heads) ELSE NoRepo]
    /\ hg_repo = SrcPath(1)
    /\ FixLocalsInit
    /\ cmds = {}
    /\ pc = "fix_branches"
    /\ exit = "none"
    /\ fs0 = fs
    /\ repos0 = repos
    /\ atCall = fs

SpecFix == InitFix /\ [][NextFix]_vars

\* ------------------------------------------------------------------ properties of fix_branches
FinalHeads == repos[hg_repo].heads

HeadsOn(b) == {j \in 1..Len(FinalHeads) : FinalHeads[j].branch = b}

\* the head with this hash is still in the repository, on branch b
StillOn(hash, b) ==
    \E j \in 1..Len(FinalHeads) : FinalHeads[j].node = hash /\ FinalHeads[j].branch = b

\* the branch of the changeset that replaced the head with this hash, None if not amended
RenamedTo(hash) ==
    NodeBranch(FinalHeads, AmendedNode(all_heads, hash))

WasRenamed(hash) ==
    /\ \A j \in 1..Len(FinalHeads) : FinalHeads[j].node # hash
    /\ RenamedTo(hash) # None

Anonymous(b, n) == b \o <<"-anonymous-">> \o Dec(n)

C5_NewestHeadKept ==
    pc = "fix_returned" =>
        \A b \in Branches(all_heads) :
            LET G == GroupBy(all_heads, b)
            IN Len(G) > 1 =>
                \E p \in 1..Len(G) :
                    /\ \A q \in 1..Len(G) : G[q].timestamp <= G[p].timestamp
                    /\ \A q \in 1..(p - 1) : G[q].timestamp < G[p].timestamp
                    /\ StillOn(G[p].hash, b)
                    /\ \A q \in 1..Len(G) : q # p => WasRenamed(G[q].hash)

\* a run that returned, with a group of three heads whose two newest share the
\* greatest timestamp and come after an older head in the order of get_heads
C5_Witness ==
    /\ pc = "fix_returned"
    /\ \E b \in Branches(all_heads) :
          LET G == GroupBy(all_heads, b)
          IN /\ Len(G) = 3
             /\ G[1].timestamp < G[2].timestamp
             /\ G[2].timestamp = G[3].timestamp
             /\ StillOn(G[2].hash, b)

\* C6: a secondary head with a bookmark is renamed to exactly the bookmark; in a
\* group whose secondary heads have no bookmark they are named
\* <branch>-anonymous-1 .. <branch>-anonymous-k, newest first.
C6_BookmarkOrAnonymous ==
    pc = "fix_returned" =>
        \A b \in DOMAIN heads_by_branch :
            LET G == heads_by_branch[b]
            IN /\ \A q \in 2..Len(G) :
                      G[q].bookmark # None => RenamedTo(G[q].hash) = G[q].bookmark
               /\ (\A q \in 2..Len(G) : G[q].bookmark = None) =>
                      \A q \in 2..Len(G) :
                          RenamedTo(G[q].hash) = <<Anonymous(b, q - 1)>>

\* a run that returned with a group of two bookmark-less secondary heads, the
\* older of them named <branch>-anonymous-2
C6_Witness ==
    /\ pc = "fix_returned"
    /\ \E b \in DOMAIN heads_by_branch :
          LET G == heads_by_branch[b]
          IN /\ Len(G) = 3
             /\ G[2].bookmark = None /\ G[3].bookmark = None
             /\ G[2].timestamp > G[3].timestamp
             /\ RenamedTo(G[3].hash) = <<b \o <<"-anonymous-", "2">>>>

\* C10 as stated: the bookmark-less secondary head at position n among the
\* secondary heads of its group is renamed <branch>-anonymous-<n>.
C10_CounterPerSecondaryHead ==
    pc = "fix_returned" =>
        \A b \in DOMAIN heads_by_branch :
            LET G == heads_by_branch[b]
            IN \A q \in 2..Len(G) :
                  G[q].bookmark = None => RenamedTo(G[q].hash) = <<Anonymous(b, q - 1)>>

\* C10 amended: the counter advances only at a bookmark-less secondary head, so a
\* bookmark-less secondary head is renamed <branch>-anonymous-<n>, n the number of
\* bookmark-less secondary heads of its group up to and including it.
C10_CounterPerAnonymousHead ==
    pc = "fix_returned" =>
        \A b \in DOMAIN heads_by_branch :
            LET G == heads_by_branch[b]
            IN \A q \in 2..Len(G) :
                  G[q].bookmark = None =>
                      RenamedTo(G[q].hash) =
                          <<Anonymous(b, Cardinality({r \in 2..q : G[r].bookmark = None}))>>

\* a run that returned with a bookmarked secondary head before a bookmark-less one
C10_Witness ==
    /\ pc = "fix_returned"
    /\ \E b \in DOMAIN heads_by_branch :
          LET G == heads_by_branch[b]
          IN /\ Len(G) = 3
             /\ G[2].bookmark # None
             /\ G[3].bookmark = None
             /\ RenamedTo(G[3].hash) = <<b \o <<"-anonymous-", "1">>>>

\* ------------------------------------------------------------------ main: the command line
Script == <<"exporter.py">>
BashArg == BashFlag \o <<"=", "git-bash">>
BashArgTwoEq == BashFlag \o <<"=", "sh", "=", "x">>
BashArgNoEq == BashFlag
MappingArg == <<"map.json">>

ArgChoices == {BashArg, BashArgTwoEq, BashArgNoEq, MappingArg}

\* lines 140-143: an argument that starts with --bash
MainArgBash ==
    /\ pc = "main_args"
    /\ i <= Len(argv_copy)
    /\ StartsWith(argv_copy[i], BashFlag)
    /\ argv' = DelAt(argv, i)
    /\ LET parts == Split1(argv_copy[i])
       IN IF Len(parts) < 2
          THEN /\ exit' = "exception"       \* IndexError
               /\ pc' = "exited"
               /\ BASH' = BASH
          ELSE /\ BASH' = parts[2]
               /\ pc' = "main_mapping"      \* break
               /\ exit' = exit
    /\ UNCHANGED <<platform, argv_copy, i, batchVars, fixVars, repos, hg_repo, cmds>>

\* lines 144-149: the else of the if, taken for every other argument
MainArgOther ==
    /\ pc = "main_args"
    /\ i <= Len(argv_copy)
    /\ ~StartsWith(argv_copy[i], BashFlag)
    /\ IF platform = "nt"
       THEN /\ exit' = "missing_bash"       \* sys.exit(1)
            /\ pc' = "exited"
            /\ UNCHANGED <<BASH, i>>
       ELSE /\ BASH' = DefaultBash
            /\ i' = i + 1
            /\ UNCHANGED <<pc, exit>>
    /\ UNCHANGED <<platform, argv, argv_copy, batchVars, fixVars, repos, hg_repo, cmds>>

\* the loop of line 139 is exhausted
MainArgsDone ==
    /\ pc = "main_args"
    /\ i > Len(argv_copy)
    /\ pc' = "main_mapping"
    /\ UNCHANGED <<mainVars, batchVars, fixVars, repos, hg_repo, cmds, exit>>

\* lines 150-157: REPO_MAPPING_FILE = sys.argv[1]
MainMappingArg ==
    /\ pc = "main_mapping"
    /\ IF Len(argv) < 2
       THEN /\ exit' = "no_mapping"         \* sys.exit(1)
            /\ pc' = "exited"
       ELSE /\ pc' = "main_loaded"
            /\ exit' = exit
    /\ UNCHANGED <<mainVars, batchVars, fixVars, repos, hg_repo, cmds>>

NextMain == MainArgBash \/ MainArgOther \/ MainArgsDone \/ MainMappingArg

InitMain ==
    /\ platform \in {"posix", "nt"}
    /\ \E n \in 0..MaxArgs : \E rest \in [1..n -> ArgChoices] : argv = <<Script>> \o rest
    /\ argv_copy = argv
    /\ i = 1
    /\ BASH = None
    /\ mapping = <<>>
    /\ idx = 0
    /\ fs = [d \in Dests |-> "absent"]
    /\ repos = [p \in Paths |-> NoRepo]
    /\ hg_repo = SrcPath(1)
    /\ FixLocalsInit
    /\ cmds = {}
    /\ pc = "main_args"
    /\ exit = "none"
    /\ fs0 = fs
    /\ repos0 = repos
    /\ atCall = fs

SpecMain == InitMain /\ [][NextMain]_vars

HasBashFlag == \E j \in 1..Len(argv_copy) : StartsWith(argv_copy[j], BashFlag)

FirstBashFlag ==
    CHOOSE j \in 1..Len(argv_copy) :
        /\ StartsWith(argv_copy[j], BashFlag)
        /\ \A m \in 1..(j - 1) : ~StartsWith(argv_copy[m], BashFlag)

\* C7: where the shell flag is required (os.name is nt), main exits with the
\* missing-shell message if and only if no argument starts with --bash, and a
\* --bash=<value> argument, wherever it stands, gives the shell interpreter.
C7_ShellFlagRequired ==
    (platform = "nt" /\ pc \in {"main_mapping", "main_loaded", "exited"}) =>
        /\ (exit = "missing_bash") <=> ~HasBashFlag
        /\ (HasBashFlag /\ Len(Split1(argv_copy[FirstBashFlag])) = 2) =>
               BASH = Split1(argv_copy[FirstBashFlag])[2]

\* ------------------------------------------------------------------ process_repo
git_repo == mapping[idx].git_repo

\* os.path.exists(git_repo), line 36
PathExistsNever(state) == FALSE

PathExists(state) == state # "absent"

\* mkdir_p: os.makedirs, an existing directory is accepted (lines 16-23)
MkdirP(state) == IF state = "absent" THEN "dir" ELSE state

\* process_repo passes hg_repo_copy to fix_branches (line 133) and to convert (line 134)
FixBranchesArgOriginal(n) == SrcPath(n)

FixBranchesArg(n) == CopyPath(n)

ConvertArg(n) == CopyPath(n)

\* lines 170-178: the next entry of the mapping; process_repo is called
MainCallProcessRepo ==
    /\ pc = "main_loop"
    /\ idx <= Len(mapping)
    /\ atCall' = fs
    /\ cmds' = {}
    /\ pc' = "init_git_repo"
    /\ UNCHANGED <<mainVars, mapping, idx, fs, fs0, repos0, fixVars, repos, hg_repo, exit>>

\* the mapping is exhausted: main returns
MainFinish ==
    /\ pc = "main_loop"
    /\ idx > Len(mapping)
    /\ exit' = "ok"
    /\ pc' = "exited"
    /\ UNCHANGED <<mainVars, batchVars, fixVars, repos, hg_repo, cmds>>

\* lines 36-42: the destination exists, sys.exit(1)
InitGitRepoExists ==
    /\ pc = "init_git_repo"
    /\ PathExists(fs[git_repo])
    /\ exit' = "dest_exists"
    /\ pc' = "exited"
    /\ UNCHANGED <<mainVars, batchVars, fixVars, repos, hg_repo, cmds>>

InitGitRepoNew ==
    /\ pc = "init_git_repo"
    /\ ~PathExists(fs[git_repo])
    /\ pc' = "mkdir_p"
    /\ UNCHANGED <<mainVars, batchVars, fixVars, repos, hg_repo, cmds, exit>>

\* line 43
InitGitRepoMkdir ==
    /\ pc = "mkdir_p"
    /\ fs' = [fs EXCEPT ![git_repo] = MkdirP(@)]
    /\ pc' = "git_init"
    /\ UNCHANGED <<mainVars, mapping, idx, fs0, repos0, atCall, fixVars, repos,
                   hg_repo, cmds, exit>>

\* line 44: git init <git_repo>
GitInit ==
    /\ pc = "git_init"
    /\ fs' = [fs EXCEPT ![git_repo] = "initialized"]
    /\ cmds' = Ran("git init", git_repo)
    /\ pc' = "git_config"
    /\ UNCHANGED <<mainVars, mapping, idx, fs0, repos0, atCall, fixVars, repos,
                   hg_repo, exit>>

\* lines 45-47: git config core.ignoreCase false
GitConfig ==
    /\ pc = "git_config"
    /\ fs' = [fs EXCEPT ![git_repo] = "configured"]
    /\ cmds' = Ran("git config", git_repo)
    /\ pc' = "copy_hg_repo"
    /\ UNCHANGED <<mainVars, mapping, idx, fs0, repos0, atCall, fixVars, repos,
                   hg_repo, exit>>

\* os.makedirs or a git command of init_git_repo fails: the exception leaves main
InitGitRepoFails ==
    /\ pc \in {"mkdir_p", "git_init", "git_config"}
    /\ exit' = "exception"
    /\ pc' = "exited"
    /\ UNCHANGED <<mainVars, batchVars, fixVars, repos, hg_repo, cmds>>

\* lines 49-55 and 131-133: the copy is made and fix_branches is called on it
CopyHgRepo ==
    /\ pc = "copy_hg_repo"
    /\ repos' = [repos EXCEPT ![CopyPath(idx)] = repos[mapping[idx].hg_repo]]
    /\ hg_repo' = FixBranchesArg(idx)
    /\ all_heads' = <<>>
    /\ heads_by_branch' = <<>>
    /\ todo' = {}
    /\ branch' = None
    /\ k' = 0
    /\ counter' = 0
    /\ new_branch_name' = None
    /\ wd' = [parent |-> 0, branch |-> None]
    /\ pc' = "fix_branches"
    /\ UNCHANGED <<mainVars, batchVars, cmds, exit>>

\* shutil.copytree raises: before it made the target directory, or after it
\* made it and copied a part; line 131 is outside the try
CopyHgRepoFails ==
    /\ pc = "copy_hg_repo"
    /\ \E left \in {"absent", "partial"} :
          repos' = [repos EXCEPT ![CopyPath(idx)] = [state |-> left, heads |-> <<>>]]
    /\ exit' = "exception"
    /\ pc' = "exited"
    /\ UNCHANGED <<mainVars, batchVars, fixVars, hg_repo, cmds>>

\* lines 120-126: the translation engine reads the copy and writes the destination
Convert ==
    /\ pc = "fix_returned"
    /\ fs' = [fs EXCEPT ![git_repo] = "translated"]
    /\ cmds' = Ran("hg-fast-export.sh", ConvertArg(idx))
    /\ pc' = "git_checkout"
    /\ UNCHANGED <<mainVars, mapping, idx, fs0, repos0, atCall, fixVars, repos,
                   hg_repo, exit>>

\* the engine exits non-zero, having written nothing or a part
ConvertFails ==
    /\ pc = "fix_returned"
    /\ \E left \in {fs[git_repo], "partial"} :
          fs' = [fs EXCEPT ![git_repo] = left]
    /\ cmds' = Ran("hg-fast-export.sh", ConvertArg(idx))
    /\ pc' = "convert_raised"
    /\ UNCHANGED <<mainVars, mapping, idx, fs0, repos0, atCall, fixVars, repos,
                   hg_repo, exit>>

\* line 127: git checkout master
GitCheckout ==
    /\ pc = "git_checkout"
    /\ fs' = [fs EXCEPT ![git_repo] = "converted"]
    /\ cmds' = Ran("git checkout", git_repo)
    /\ pc' = "converted"
    /\ UNCHANGED <<mainVars, mapping, idx, fs0, repos0, atCall, fixVars, repos,
                   hg_repo, exit>>

GitCheckoutFails ==
    /\ pc = "git_checkout"
    /\ cmds' = Ran("git checkout", git_repo)
    /\ pc' = "convert_raised"
    /\ UNCHANGED <<mainVars, batchVars, fixVars, repos, hg_repo, exit>>

\* lines 135-136 after the try body completed: rmtree, process_repo returns
FinallyReturn ==
    /\ pc = "converted"
    /\ repos' = [repos EXCEPT ![CopyPath(idx)] = NoRepo]
    /\ idx' = idx + 1
    /\ pc' = "main_loop"
    /\ UNCHANGED <<mainVars, mapping, fs, fs0, repos0, atCall, fixVars, hg_repo,
                   cmds, exit>>

FinallyContinue ==
    /\ pc \in {"fix_raised", "convert_raised"}
    /\ repos' = [repos EXCEPT ![CopyPath(idx)] = NoRepo]
    /\ idx' = idx + 1
    /\ pc' = "main_loop"
    /\ UNCHANGED <<mainVars, mapping, fs, fs0, repos0, atCall, fixVars, hg_repo,
                   cmds, exit>>

\* lines 135-136 after fix_branches or convert raised: rmtree, then the
\* exception leaves process_repo and main
FinallyReraise ==
    /\ pc \in {"fix_raised", "convert_raised"}
    /\ repos' = [repos EXCEPT ![CopyPath(idx)] = NoRepo]
    /\ exit' = "exception"
    /\ pc' = "exited"
    /\ UNCHANGED <<mainVars, batchVars, fixVars, hg_repo, cmds>>

Next ==
    \/ MainCallProcessRepo \/ MainFinish
    \/ InitGitRepoExists \/ InitGitRepoNew \/ InitGitRepoMkdir \/ GitInit \/ GitConfig
    \/ InitGitRepoFails
    \/ CopyHgRepo \/ CopyHgRepoFails
    \/ FixGetHeads \/ HgFails \/ FixNextBranch \/ FixReturn \/ FixNextHead
    \/ FixGroupDone \/ HgUp \/ HgPhase \/ HgBranch \/ HgLog \/ HgAmend
    \/ Convert \/ ConvertFails \/ GitCheckout \/ GitCheckoutFails
    \/ FinallyReturn \/ FinallyReraise

\* ------------------------------------------------------------------ the batch run
\* the source repositories of a batch run
RepoHeadChoices ==
    { <<HgHead(1, NameA, <<2, 0>>, <<>>)>>,
      <<HgHead(1, NameA, <<1, 0>>, <<>>), HgHead(2, NameA, <<2, 0>>, <<>>)>>,
      <<HgHead(1, NameA, <<2, 0>>, <<>>), HgHead(2, NameA, <<1, 0>>, <<NameF>>)>>,
      <<HgHead(1, NameA, <<2, 0>>, <<>>), HgHead(2, NameA, <<1, 0>>, <<>>),
        HgHead(3, NameX, <<1, 0>>, <<>>)>> }

\* the state at line 170: the command line is read and the mapping is loaded
Init ==
    /\ platform = "posix"
    /\ argv = <<Script, MappingArg>>
    /\ argv_copy = argv
    /\ i = 2
    /\ BASH = DefaultBash
    /\ \E n \in 1..MaxEntries :
          /\ \E dst \in [1..n -> Dests] :
                mapping = [j \in 1..n |-> [hg_repo |-> SrcPath(j), git_repo |-> dst[j]]]
          /\ \E heads \in [1..n -> RepoHeadChoices] :
                repos = [p \in Paths |->
                            IF \E j \in 1..n : p = SrcPath(j)
                            THEN Repo(heads[p[2]])
                            ELSE NoRepo]
    /\ idx = 1
    /\ fs \in [Dests -> {"absent", "existing"}]
    /\ hg_repo = SrcPath(1)
    /\ FixLocalsInit
    /\ cmds = {}
    /\ pc = "main_loop"
    /\ exit = "none"
    /\ fs0 = fs
    /\ repos0 = repos
    /\ atCall = fs

Spec == Init /\ [][Next]_vars

\* ------------------------------------------------------------------ properties of process_repo
\* no call of process_repo is in progress: it has not begun, has returned, or the
\* process has ended
ProcessRepoEnded == pc \in {"main_loop", "exited"}

\* process_repo has been called for the entry at idx and has not returned
InCall == idx \in 1..Len(mapping) /\ pc # "main_loop"

NoCopyOnDisk == \A n \in 1..MaxEntries : repos[CopyPath(n)].state = "absent"

\* C2: whenever process_repo ends, by return or by an error of any of its steps,
\* no disposable copy made by it remains on disk.
C2_CopyRemoved == ProcessRepoEnded => NoCopyOnDisk

\* C3: if the destination exists when process_repo is called, the process exits
\* with status 1 at the check of init_git_repo: nothing on disk under any
\* destination changes, no copy is made and no external command is run.
C3_NoClobber ==
    (InCall /\ atCall[git_repo] # "absent") =>
        /\ pc \in {"init_git_repo", "exited"}
        /\ pc = "exited" => exit = "dest_exists"
        /\ fs = atCall
        /\ NoCopyOnDisk
        /\ cmds = {}

\* the process has exited at an existing destination
C3_Witness ==
    /\ pc = "exited"
    /\ exit = "dest_exists"
    /\ atCall[git_repo] = "existing"
    /\ fs[git_repo] = "existing"

MutatingHgCommands == {"hg up", "hg phase", "hg branch", "hg commit --amend"}

\* C4: the original source repositories are never changed: every mutating hg
\* command and the input of the translation engine are directed at the copy.
C4_OriginalUntouched ==
    /\ \A n \in 1..MaxEntries : repos[SrcPath(n)] = repos0[SrcPath(n)]
    /\ \A c \in cmds :
          c.tool \in MutatingHgCommands \cup {"hg-fast-export.sh"} =>
              \E n \in 1..MaxEntries : c.on = CopyPath(n)

\* process_repo has returned after fix_branches amended a head of the copy and
\* the engine ran
C4_Witness ==
    /\ pc = "main_loop"
    /\ idx > 1
    /\ [tool |-> "hg commit --amend", on |-> CopyPath(idx - 1)] \in cmds
    /\ [tool |-> "hg-fast-export.sh", on |-> CopyPath(idx - 1)] \in cmds
    /\ Len(repos[SrcPath(idx - 1)].heads) > 1

\* C8 as stated: when the process exits because a destination exists, the run has
\* made no mutation at all: no destination has been created or written, and no
\* entry has been processed (so no copy has been made).
C8_ExitBeforeAnyMutation ==
    (pc = "exited" /\ exit = "dest_exists") =>
        /\ fs = fs0
        /\ idx = 1
        /\ NoCopyOnDisk

EarlierDests == {mapping[j].git_repo : j \in 1..(idx - 1)}

\* C8 amended: when the process exits because the destination of an entry exists,
\* nothing has been done for that entry or a later one: its destination is as it
\* was, no copy is on disk, no command was run for it; the destinations of the
\* entries before it hold their completed conversions and every other
\* destination is as it was when the run began.
C8_ExitBeforeMutationOfEntry ==
    (pc = "exited" /\ exit = "dest_exists") =>
        /\ fs[git_repo] = atCall[git_repo]
        /\ NoCopyOnDisk
        /\ cmds = {}
        /\ \A d \in EarlierDests : fs[d] = "converted"
        /\ \A d \in Dests \ EarlierDests : fs[d] = fs0[d]

\* the second entry's destination existed before the run; the first has been converted
C8_Witness ==
    /\ pc = "exited"
    /\ exit = "dest_exists"
    /\ idx = 2
    /\ fs0[git_repo] = "existing"
    /\ fs[mapping[1].git_repo] = "converted"

\* C9: whenever process_repo ends, a destination that did not exist before the
\* run holds a completed conversion or does not exist.
C9_AllOrNothing ==
    ProcessRepoEnded =>
        \A d \in Dests : fs0[d] = "absent" => fs[d] \in {"absent", "converted"}

====
